---- MODULE Spec2Model ----
(***************************************************************************)
(* Resource.Controller of the meta engine (Resource.Controller.js): the    *)
(* Type Registry (add / remove / getTexture / getSound), the load          *)
(* accounting (addToLoad / loadSuccess / loadFailed), the synchronous load *)
(* queue (addToQueue / loadNextFromQueue) and the id generator.            *)
(*                                                                         *)
(* JavaScript strings are modelled as sequences of one-character strings,  *)
(* so that name derivation (lastIndexOf / slice) is computed, not assumed. *)
(* Objects used as maps are functions whose DOMAIN is the set of own       *)
(* properties; a property that is not an own property is looked up on      *)
(* Object.prototype, as the interpreter does for an object literal.        *)
(***************************************************************************)
EXTENDS Integers, Sequences, FiniteSets, TLC

\* ------------------------------------------------------------------ bounds
\* Largest absolute value the load counters are explored to.
MaxCount == 2
\* Longest in-use bucket explored (per type).
MaxInUse == 2
\* Longest synchronous queue explored.
MaxQueue == 3
\* Largest id explored.
MaxID == 3
\* Most addToQueue calls, and most forceLoad calls, explored.
MaxEnqueue == 3
MaxForce == 3

\* ------------------------------------------------------- JavaScript values
NULL == "null"
UNDEFINED == "undefined"
\* A truthy value inherited from Object.prototype (a function object).
INHERITED == "function"

Truthy(v) == v \notin {NULL, UNDEFINED}

\* Strings as sequences of characters.
EmptyString == << >>
Unknown == <<"u", "n", "k", "n", "o", "w", "n">>
Constructor == <<"c", "o", "n", "s", "t", "r", "u", "c", "t", "o", "r">>

\* Property names every object literal inherits from Object.prototype.
ObjectPrototype == {Constructor}

\* A fresh object literal: no own property.
EmptyObject == [n \in {} |-> NULL]

\* obj[key]: the own property, else the inherited one, else undefined.
GetProp(obj, key) ==
    IF key \in DOMAIN obj THEN obj[key]
    ELSE IF key \in ObjectPrototype THEN INHERITED
    ELSE UNDEFINED

\* obj[key] = value
SetProp(obj, key, value) ==
    [k \in (DOMAIN obj) \cup {key} |-> IF k = key THEN value ELSE obj[k]]

\* String.prototype.lastIndexOf for a one-character needle (0-based, -1 if none).
LastIndexOf(s, c) ==
    LET hits == {i \in 1..Len(s) : s[i] = c}
    IN  IF hits = {} THEN -1
        ELSE (CHOOSE i \in hits : \A j \in hits : j <= i) - 1

\* String.prototype.slice(start, end) for 0 <= start, 0 <= end <= length.
Slice(s, start, end) ==
    IF start >= end THEN EmptyString ELSE SubSeq(s, start + 1, end)

\* ----------------------------------------------------------------- handles
TEXTURE == "TEXTURE"
SOUND == "SOUND"
Types == {TEXTURE, SOUND}

\* The resource handles of the explored scenarios: their type, the name they
\* are created with and their path ("" when they have none).
Handles == {"h1", "h2", "h3", "h4", "h5"}

HandleType(h) ==
    CASE h = "h1" -> TEXTURE
      [] h = "h2" -> TEXTURE
      [] h = "h3" -> SOUND
      [] h = "h4" -> SOUND
      [] h = "h5" -> TEXTURE

CreatedName(h) ==
    CASE h = "h1" -> <<"a">>
      [] h = "h2" -> Unknown
      [] h = "h3" -> <<"a">>
      [] h = "h4" -> Constructor
      [] h = "h5" -> EmptyString

HandlePath(h) ==
    CASE h = "h1" -> EmptyString
      [] h = "h2" -> <<"x", "/", "a", ".", "p">>
      [] h = "h3" -> <<"d", "/", "a", ".", "o">>
      [] h = "h4" -> EmptyString
      [] h = "h5" -> EmptyString

\* The handles the load accounting and the queue are driven with.
LoadHandles == {"h1", "h3"}
QueueHandles == {"h1", "h2", "h3"}

\* The name add() gives a resource: derived from the path when the name is
\* "unknown" and a path is set, else the name it carries.
DerivedName(resourceName, path) ==
    IF resourceName = Unknown /\ path # EmptyString
    THEN LET pointIndexOf == LastIndexOf(path, ".")
             slashIndexOf == LastIndexOf(path, "/")
             pointEnd == IF pointIndexOf < 0 THEN Len(path) ELSE pointIndexOf
         IN  Slice(path, slashIndexOf + 1, pointEnd)
    ELSE resourceName

\* Every name a lookup may be asked for.
Names == {CreatedName(h) : h \in Handles}
             \cup {DerivedName(CreatedName(h), HandlePath(h)) : h \in Handles}
             \cup {<<"z">>}

\* ------------------------------------------------------------------- state
VARIABLES
    resources,        \* this.resources: type -> (name -> handle | null)
    resourcesInUse,   \* this.resourcesInUse: type -> array of handles
    numLoaded,        \* this.numLoaded
    numToLoad,        \* this.numToLoad
    syncQueue,        \* this._syncQueue: null, or an array of handles
    isSyncLoading,    \* this.isSyncLoading
    uniqueID,         \* this._uniqueID
    name,             \* resource.name of every handle
    path,             \* resource.path of every handle
    issued,           \* history: the ids getUniqueID returned, in order
    budget,           \* exploration: steps left to take, or -1 for no limit
    isLoading,        \* resource.isLoading of every handle
    inUse,            \* resource.inUse of every handle
    isReady,          \* meta.engine.isReady
    engineIsLoading,  \* meta.engine.isLoading
    lastCall,         \* the last call made: operation, arguments, result, emissions
    forceLoaded,      \* the handles forceLoad(true) was called on, in order
    allLoadedCount,   \* history: number of ALL_LOADED emissions so far
    added,            \* history: handles passed to addToLoad so far
    resolved,         \* history: handles passed to loadSuccess / loadFailed so far
    removed,          \* history: the handles whose registry slot remove() cleared
    enqueued,         \* history: the handles passed to addToQueue, in order
    outstanding,      \* history: the enqueued handles not yet force-loaded, in order
    reentered,        \* history: some forceLoad called back into the manager
    queueBatch,       \* history: no addToQueue came after a forceLoad
    regular,          \* history: so far every call was made with isReady false, every
                      \* addToLoad was for a new handle and every completion was for
                      \* a handle added and not yet resolved
    batch,            \* history: no addToLoad came after a completion
    tally             \* history: while isReady has never been true, the calls
                      \* counted: addToLoad minus completions, and loadSuccess

vars == <<resources, resourcesInUse, numLoaded, numToLoad, syncQueue,
          isSyncLoading, uniqueID, name, isLoading, inUse, isReady,
          engineIsLoading, lastCall, forceLoaded, allLoadedCount, added,
          resolved, enqueued, outstanding, reentered, queueBatch, regular, batch,
          removed, path, budget, issued, tally>>

registryVars == <<resources, name, path, removed>>
loadVars == <<resourcesInUse, numLoaded, numToLoad, isLoading, inUse,
              allLoadedCount, added, resolved, regular, batch, tally>>
queueVars == <<syncQueue, isSyncLoading, forceLoaded, enqueued, outstanding,
               reentered, queueBatch>>
engineVars == <<isReady, engineIsLoading>>
idVars == <<uniqueID, issued>>

Call(op, h, n, ret, emitted) ==
    [op |-> op, h |-> h, name |-> n, ret |-> ret, emitted |-> emitted]

\* The manager after init(), and the history variables.
ManagerInit ==
    /\ resources = [t \in {} |-> EmptyObject]
    /\ resourcesInUse = [t \in {} |-> << >>]
    /\ numLoaded = 0
    /\ numToLoad = 0
    /\ syncQueue = [isNull |-> TRUE, items |-> << >>]
    /\ isSyncLoading = FALSE
    /\ uniqueID = 0
    /\ issued = << >>
    /\ isLoading = [h \in Handles |-> FALSE]
    /\ inUse = [h \in Handles |-> FALSE]
    /\ isReady = FALSE
    /\ engineIsLoading \in BOOLEAN
    /\ lastCall = Call("init", "none", EmptyString, UNDEFINED, << >>)
    /\ forceLoaded = << >>
    /\ allLoadedCount = 0
    /\ added = {}
    /\ resolved = {}
    /\ regular = TRUE
    /\ batch = TRUE
    /\ tally = [unready |-> TRUE, toLoad |-> 0, loaded |-> 0]
    /\ removed = {}
    /\ enqueued = << >>
    /\ outstanding = << >>
    /\ reentered = FALSE
    /\ queueBatch = TRUE

Init ==
    /\ name = [h \in Handles |-> CreatedName(h)]
    /\ path = [h \in Handles |-> HandlePath(h)]
    /\ budget = -1
    /\ ManagerInit

\* The call tally after one more call: dToLoad and dLoaded are what the call
\* adds to the two counts. Counting stops for good once isReady has been true.
Tallied(dToLoad, dLoaded) ==
    IF tally.unready
    THEN [tally EXCEPT !.toLoad = @ + dToLoad, !.loaded = @ + dLoaded]
    ELSE tally

\* Every step spends one unit of the budget when the exploration has one.
Spend ==
    IF budget < 0 THEN UNCHANGED budget
    ELSE budget > 0 /\ budget' = budget - 1

\* ----------------------------------------------------------- Type Registry
\* this.resources with the bucket of a type created when it is missing.
WithBucket(res, t) ==
    [x \in (DOMAIN res) \cup {t} |-> IF x \in DOMAIN res THEN res[x] ELSE EmptyObject]

\* add() without the duplicate check of lines 82-87.
add_overwrite(resource) ==
    LET t == HandleType(resource)
        withBucket == WithBucket(resources, t)
        subBuffer == withBucket[t]
        newName == DerivedName(name[resource], path[resource])
    IN  /\ Spend
        /\ name' = [name EXCEPT ![resource] = newName]
        /\ resources' = [withBucket EXCEPT
                            ![t] = SetProp(subBuffer, newName, resource)]
        /\ lastCall' = Call("add", resource, newName, resource, <<"ADDED">>)
        /\ UNCHANGED <<path, removed, loadVars, queueVars, engineVars, idVars>>

\* add() whose duplicate check is "the slot exists" instead of "the slot is truthy".
add_slotExists(resource) ==
    LET t == HandleType(resource)
        withBucket == WithBucket(resources, t)
        subBuffer == withBucket[t]
        newName == DerivedName(name[resource], path[resource])
    IN  /\ Spend
        /\ name' = [name EXCEPT ![resource] = newName]
        /\ IF GetProp(subBuffer, newName) # UNDEFINED
           THEN /\ resources' = withBucket
                /\ lastCall' = Call("add", resource, newName, NULL, << >>)
           ELSE /\ resources' = [withBucket EXCEPT
                                    ![t] = SetProp(subBuffer, newName, resource)]
                /\ lastCall' = Call("add", resource, newName, resource, <<"ADDED">>)
        /\ UNCHANGED <<path, removed, loadVars, queueVars, engineVars, idVars>>

\* add() that also runs the completion check of lines 155-158.
add_checksAllLoaded(resource) ==
    LET t == HandleType(resource)
        withBucket == WithBucket(resources, t)
        subBuffer == withBucket[t]
        newName == DerivedName(name[resource], path[resource])
        notified == IF numToLoad = 0 /\ ~engineIsLoading /\ ~isReady
                    THEN <<"onResourcesLoaded", "ALL_LOADED">>
                    ELSE << >>
    IN  /\ Spend
        /\ name' = [name EXCEPT ![resource] = newName]
        /\ IF Truthy(GetProp(subBuffer, newName))
           THEN /\ resources' = withBucket
                /\ lastCall' = Call("add", resource, newName, NULL, << >>)
           ELSE /\ resources' = [withBucket EXCEPT
                                    ![t] = SetProp(subBuffer, newName, resource)]
                /\ lastCall' = Call("add", resource, newName, resource,
                                    <<"ADDED">> \o notified)
        /\ UNCHANGED <<path, removed, loadVars, queueVars, engineVars, idVars>>

\* add() that checks and stores under the name the handle came with and
\* derives resource.name from the path only afterwards.
add_storesBeforeDerive(resource) ==
    LET t == HandleType(resource)
        withBucket == WithBucket(resources, t)
        subBuffer == withBucket[t]
        newName == DerivedName(name[resource], path[resource])
    IN  /\ Spend
        /\ name' = [name EXCEPT ![resource] = newName]
        /\ IF Truthy(GetProp(subBuffer, name[resource]))
           THEN /\ resources' = withBucket
                /\ lastCall' = Call("add", resource, newName, NULL, << >>)
           ELSE /\ resources' = [withBucket EXCEPT
                                    ![t] = SetProp(subBuffer, name[resource], resource)]
                /\ lastCall' = Call("add", resource, newName, resource, <<"ADDED">>)
        /\ UNCHANGED <<path, removed, loadVars, queueVars, engineVars, idVars>>

add(resource) ==
    LET t == HandleType(resource)
        withBucket == WithBucket(resources, t)
        subBuffer == withBucket[t]
        newName == DerivedName(name[resource], path[resource])
    IN  /\ Spend
        /\ name' = [name EXCEPT ![resource] = newName]
        /\ IF Truthy(GetProp(subBuffer, newName))
           THEN /\ resources' = withBucket
                /\ lastCall' = Call("add", resource, newName, NULL, << >>)
           ELSE /\ resources' = [withBucket EXCEPT
                                    ![t] = SetProp(subBuffer, newName, resource)]
                /\ lastCall' = Call("add", resource, newName, resource, <<"ADDED">>)
        /\ UNCHANGED <<path, removed, loadVars, queueVars, engineVars, idVars>>

\* seq without the elements equal to h.
Without(seq, h) ==
    LET F[i \in 0..Len(seq)] ==
            IF i = 0 THEN << >>
            ELSE IF seq[i] = h THEN F[i - 1] ELSE Append(F[i - 1], seq[i])
    IN  F[Len(seq)]

\* remove() that also takes the handle out of the in-use bucket of its type.
remove_purgesInUse(resource) ==
    LET t == HandleType(resource)
    IN  /\ Spend
        /\ IF t \notin DOMAIN resources
           THEN UNCHANGED <<resources, removed, resourcesInUse>>
           ELSE IF ~Truthy(GetProp(resources[t], name[resource]))
                THEN UNCHANGED <<resources, removed, resourcesInUse>>
                ELSE /\ resources' = [resources EXCEPT
                                        ![t] = SetProp(resources[t], name[resource], NULL)]
                     /\ removed' = removed \cup ({GetProp(resources[t], name[resource])}
                                                   \cap Handles)
                     /\ resourcesInUse' =
                           [x \in DOMAIN resourcesInUse |->
                               IF x = t THEN Without(resourcesInUse[x], resource)
                               ELSE resourcesInUse[x]]
        /\ lastCall' = Call("remove", resource, name[resource], UNDEFINED, << >>)
        /\ UNCHANGED <<name, path, numLoaded, numToLoad, isLoading, inUse,
                       allLoadedCount, added, resolved, regular, batch, tally,
                       queueVars, engineVars, idVars>>

remove(resource) ==
    LET t == HandleType(resource)
    IN  /\ Spend
        /\ IF t \notin DOMAIN resources
           THEN UNCHANGED <<resources, removed>>
           ELSE IF ~Truthy(GetProp(resources[t], name[resource]))
                THEN UNCHANGED <<resources, removed>>
                ELSE /\ resources' = [resources EXCEPT
                                        ![t] = SetProp(resources[t], name[resource], NULL)]
                     /\ removed' = removed \cup ({GetProp(resources[t], name[resource])}
                                                   \cap Handles)
        /\ lastCall' = Call("remove", resource, name[resource], UNDEFINED, << >>)
        /\ UNCHANGED <<name, path, loadVars, queueVars, engineVars, idVars>>

\* The body shared by getTexture and getSound, for the bucket of type t.
Lookup(res, t, n) ==
    IF n = EmptyString THEN NULL
    ELSE IF t \notin DOMAIN res THEN NULL
    ELSE IF ~Truthy(GetProp(res[t], n)) THEN NULL
    ELSE GetProp(res[t], n)

getTexture(n) ==
    /\ Spend
    /\ lastCall' = Call("getTexture", "none", n, Lookup(resources, TEXTURE, n), << >>)
    /\ UNCHANGED <<registryVars, loadVars, queueVars, engineVars, idVars>>

getSound(n) ==
    /\ Spend
    /\ lastCall' = Call("getSound", "none", n, Lookup(resources, SOUND, n), << >>)
    /\ UNCHANGED <<registryVars, loadVars, queueVars, engineVars, idVars>>

NextRegistry ==
    \/ \E h \in Handles : add(h)
    \/ \E h \in Handles : remove(h)
    \/ \E n \in Names : getTexture(n)
    \/ \E n \in Names : getSound(n)

SpecRegistry == Init /\ [][NextRegistry]_vars

\* Name derivation on its own: add() of one handle whose name and path are
\* drawn from bounded sets.
MaxPathLen == 4
PathChars == {"a", "/", "."}
Paths == UNION {[1..n -> PathChars] : n \in 0..MaxPathLen}
NameHandles == {"h2"}

InitName ==
    /\ \E n \in {Unknown, <<"a">>}, p \in Paths :
          /\ name = [h \in Handles |-> IF h \in NameHandles THEN n ELSE CreatedName(h)]
          /\ path = [h \in Handles |-> IF h \in NameHandles THEN p ELSE HandlePath(h)]
    /\ budget = -1
    /\ ManagerInit

NextName == \E h \in NameHandles : add(h)

SpecName == InitName /\ [][NextName]_vars

\* --------------------------------------------------------- Load Accounting
\* Largest number of ALL_LOADED emissions explored.
MaxNotify == 2

\* addToLoad() that counts the load whatever meta.engine.isReady is.
addToLoad_unguarded(resource) ==
    /\ Spend
    /\ isLoading' = [isLoading EXCEPT ![resource] = TRUE]
    /\ numToLoad < MaxCount /\ numToLoad' = numToLoad + 1
    /\ lastCall' = Call("addToLoad", resource, name[resource], UNDEFINED, << >>)
    /\ added' = added \cup {resource}
    /\ regular' = (regular /\ ~isReady /\ resource \notin added)
    /\ batch' = (batch /\ resolved = {})
    /\ tally' = Tallied(1, 0)
    /\ UNCHANGED <<resourcesInUse, numLoaded, inUse, allLoadedCount, resolved,
                   registryVars, queueVars, engineVars, idVars>>

addToLoad(resource) ==
    /\ Spend
    /\ isLoading' = [isLoading EXCEPT ![resource] = TRUE]
    /\ IF ~isReady
       THEN numToLoad < MaxCount /\ numToLoad' = numToLoad + 1
       ELSE UNCHANGED numToLoad
    /\ lastCall' = Call("addToLoad", resource, name[resource], UNDEFINED, << >>)
    /\ added' = added \cup {resource}
    /\ regular' = (regular /\ ~isReady /\ resource \notin added)
    /\ batch' = (batch /\ resolved = {})
    /\ tally' = Tallied(1, 0)
    /\ UNCHANGED <<resourcesInUse, numLoaded, inUse, allLoadedCount, resolved,
                   registryVars, queueVars, engineVars, idVars>>

\* The tail shared by loadSuccess and loadFailed (lines 155-158, 174-177):
\* what the call emits once numToLoad has the value toLoad.
Notification_beforeDecrement(toLoad) ==
    IF toLoad + 1 = 0 /\ ~engineIsLoading
    THEN <<"onResourcesLoaded", "ALL_LOADED">>
    ELSE << >>

\* The zero check without the meta.engine.isLoading test.
Notification_ignoresLoading(toLoad) ==
    IF toLoad = 0
    THEN <<"onResourcesLoaded", "ALL_LOADED">>
    ELSE << >>

Notification_lessEq(toLoad) ==
    IF toLoad <= 0 /\ ~engineIsLoading
    THEN <<"onResourcesLoaded", "ALL_LOADED">>
    ELSE << >>

Notification(toLoad) ==
    IF toLoad = 0 /\ ~engineIsLoading
    THEN <<"onResourcesLoaded", "ALL_LOADED">>
    ELSE << >>

\* resourcesInUse with the handle pushed on the bucket of its type.
Pushed(inUseMap, t, resource) ==
    [x \in (DOMAIN inUseMap) \cup {t} |->
        IF x = t
        THEN Append(IF t \in DOMAIN inUseMap THEN inUseMap[t] ELSE << >>, resource)
        ELSE inUseMap[x]]

loadSuccess(resource) ==
    LET t == HandleType(resource)
        emitted == IF ~isReady THEN Notification(numToLoad - 1) ELSE << >>
    IN  /\ Spend
        /\ (t \in DOMAIN resourcesInUse => Len(resourcesInUse[t]) < MaxInUse)
        /\ resourcesInUse' = Pushed(resourcesInUse, t, resource)
        /\ isLoading' = [isLoading EXCEPT ![resource] = FALSE]
        /\ inUse' = [inUse EXCEPT ![resource] = TRUE]
        /\ IF ~isReady
           THEN /\ numToLoad > -MaxCount
                /\ numLoaded < MaxCount
                /\ numToLoad' = numToLoad - 1
                /\ numLoaded' = numLoaded + 1
           ELSE UNCHANGED <<numToLoad, numLoaded>>
        /\ allLoadedCount + Len(emitted) \div 2 <= MaxNotify
        /\ allLoadedCount' = allLoadedCount + Len(emitted) \div 2
        /\ lastCall' = Call("loadSuccess", resource, name[resource], UNDEFINED, emitted)
        /\ resolved' = resolved \cup {resource}
        /\ regular' = (regular /\ ~isReady /\ resource \in added \ resolved)
        /\ tally' = Tallied(-1, 1)
        /\ UNCHANGED <<added, batch, registryVars, queueVars, engineVars, idVars>>

\* loadFailed() that counts the failed load as loaded, as loadSuccess does.
loadFailed_countsLoaded(resource) ==
    LET emitted == IF ~isReady THEN Notification(numToLoad - 1) ELSE << >>
    IN  /\ Spend
        /\ isLoading' = [isLoading EXCEPT ![resource] = FALSE]
        /\ IF ~isReady
           THEN /\ numToLoad > -MaxCount
                /\ numToLoad' = numToLoad - 1
                /\ numLoaded < MaxCount
                /\ numLoaded' = numLoaded + 1
           ELSE UNCHANGED <<numToLoad, numLoaded>>
        /\ allLoadedCount + Len(emitted) \div 2 <= MaxNotify
        /\ allLoadedCount' = allLoadedCount + Len(emitted) \div 2
        /\ lastCall' = Call("loadFailed", resource, name[resource], UNDEFINED, emitted)
        /\ resolved' = resolved \cup {resource}
        /\ regular' = (regular /\ ~isReady /\ resource \in added \ resolved)
        /\ tally' = Tallied(-1, 0)
        /\ UNCHANGED <<resourcesInUse, inUse, added, batch,
                       registryVars, queueVars, engineVars, idVars>>

\* loadFailed() without the numToLoad-- of line 172.
loadFailed_noDecrement(resource) ==
    LET emitted == IF ~isReady THEN Notification(numToLoad) ELSE << >>
    IN  /\ Spend
        /\ isLoading' = [isLoading EXCEPT ![resource] = FALSE]
        /\ allLoadedCount + Len(emitted) \div 2 <= MaxNotify
        /\ allLoadedCount' = allLoadedCount + Len(emitted) \div 2
        /\ lastCall' = Call("loadFailed", resource, name[resource], UNDEFINED, emitted)
        /\ resolved' = resolved \cup {resource}
        /\ regular' = (regular /\ ~isReady /\ resource \in added \ resolved)
        /\ tally' = Tallied(-1, 0)
        /\ UNCHANGED <<resourcesInUse, numLoaded, numToLoad, inUse, added, batch,
                       registryVars, queueVars, engineVars, idVars>>

loadFailed(resource) ==
    LET emitted == IF ~isReady THEN Notification(numToLoad - 1) ELSE << >>
    IN  /\ Spend
        /\ isLoading' = [isLoading EXCEPT ![resource] = FALSE]
        /\ IF ~isReady
           THEN /\ numToLoad > -MaxCount
                /\ numToLoad' = numToLoad - 1
           ELSE UNCHANGED numToLoad
        /\ allLoadedCount + Len(emitted) \div 2 <= MaxNotify
        /\ allLoadedCount' = allLoadedCount + Len(emitted) \div 2
        /\ lastCall' = Call("loadFailed", resource, name[resource], UNDEFINED, emitted)
        /\ resolved' = resolved \cup {resource}
        /\ regular' = (regular /\ ~isReady /\ resource \in added \ resolved)
        /\ tally' = Tallied(-1, 0)
        /\ UNCHANGED <<resourcesInUse, numLoaded, inUse, added, batch,
                       registryVars, queueVars, engineVars, idVars>>

\* The host engine owns its flags and changes them between calls.
engineSetReady(b) ==
    /\ Spend
    /\ isReady # b
    /\ isReady' = b
    /\ tally' = IF b THEN [unready |-> FALSE, toLoad |-> 0, loaded |-> 0] ELSE tally
    /\ UNCHANGED <<engineIsLoading, lastCall, registryVars, queueVars, idVars,
                   resourcesInUse, numLoaded, numToLoad, isLoading, inUse,
                   allLoadedCount, added, resolved, regular, batch>>

engineSetLoading(b) ==
    /\ Spend
    /\ engineIsLoading # b
    /\ engineIsLoading' = b
    /\ UNCHANGED <<isReady, lastCall, registryVars, loadVars, queueVars, idVars>>

NextLoad ==
    \/ \E h \in LoadHandles : addToLoad(h)
    \/ \E h \in LoadHandles : loadSuccess(h)
    \/ \E h \in LoadHandles : loadFailed(h)
    \/ \E b \in BOOLEAN : engineSetReady(b)
    \/ \E b \in BOOLEAN : engineSetLoading(b)

SpecLoad == Init /\ [][NextLoad]_vars

\* --------------------------------------------------- Synchronous Load Queue
\* Array.prototype.pop: drops the last element, a no-op on an empty array.
\* Array.prototype.shift in the place of pop: drops the first element.
Pop_shift(items) ==
    IF items = << >> THEN << >> ELSE SubSeq(items, 2, Len(items))

Pop(items) ==
    IF items = << >> THEN << >> ELSE SubSeq(items, 1, Len(items) - 1)

\* seq without the last occurrence of h (seq itself when h is not in it).
RemoveLast(seq, h) ==
    LET hits == {i \in 1..Len(seq) : seq[i] = h}
    IN  IF hits = {} THEN seq
        ELSE LET k == CHOOSE i \in hits : \A j \in hits : j <= i
             IN  SubSeq(seq, 1, k - 1) \o SubSeq(seq, k + 1, Len(seq))

addToQueue(resource) ==
    /\ Spend
    /\ Len(syncQueue.items) < MaxQueue
    /\ Len(enqueued) < MaxEnqueue
    /\ syncQueue' = [isNull |-> FALSE, items |-> Append(syncQueue.items, resource)]
    /\ lastCall' = Call("addToQueue", resource, name[resource], UNDEFINED, << >>)
    /\ enqueued' = Append(enqueued, resource)
    /\ outstanding' = Append(outstanding, resource)
    /\ queueBatch' = (queueBatch /\ forceLoaded = << >>)
    /\ UNCHANGED <<isSyncLoading, forceLoaded, reentered,
                   registryVars, loadVars, engineVars, idVars>>

\* The queue state: the array and the history kept with it.
QueueState(items, loaded, enq, out) ==
    [items |-> items, forceLoaded |-> loaded, enqueued |-> enq, outstanding |-> out]

\* resource.forceLoad(true) with the queue in state q. The handle's load code
\* may call back into the manager before it returns: not at all ("none"),
\* addToQueue(other), or loadNextFromQueue() (whose own forceLoad returns
\* without calling back).
ForceLoad(q, resource, reentry, other) ==
    LET loaded == QueueState(q.items, Append(q.forceLoaded, resource),
                             q.enqueued, RemoveLast(q.outstanding, resource))
    IN  CASE reentry = "none" -> loaded
          [] reentry = "addToQueue" ->
                QueueState(Append(loaded.items, other), loaded.forceLoaded,
                           Append(loaded.enqueued, other),
                           Append(loaded.outstanding, other))
          [] reentry = "loadNextFromQueue" ->
                IF loaded.items = << >> THEN loaded
                ELSE LET last == loaded.items[Len(loaded.items)]
                     IN  QueueState(Pop(loaded.items),
                                    Append(loaded.forceLoaded, last),
                                    loaded.enqueued,
                                    RemoveLast(loaded.outstanding, last))

Reentries == {"none", "addToQueue", "loadNextFromQueue"}

loadNextFromQueue(reentry, other) ==
    /\ Spend
    /\ isSyncLoading' = FALSE
    /\ IF syncQueue.isNull \/ Len(syncQueue.items) = 0
       THEN /\ reentry = "none"
            /\ lastCall' = Call("loadNextFromQueue", "none", EmptyString, UNDEFINED, << >>)
            /\ UNCHANGED <<syncQueue, forceLoaded, enqueued, outstanding, reentered,
                           queueBatch>>
       ELSE LET items == syncQueue.items
                resource == items[Len(items)]
                q == ForceLoad(QueueState(items, forceLoaded, enqueued, outstanding),
                               resource, reentry, other)
            IN  /\ Len(q.forceLoaded) <= MaxForce
                /\ Len(q.enqueued) <= MaxEnqueue
                /\ Len(q.items) <= MaxQueue
                /\ syncQueue' = [isNull |-> FALSE, items |-> Pop(q.items)]
                /\ forceLoaded' = q.forceLoaded
                /\ enqueued' = q.enqueued
                /\ outstanding' = q.outstanding
                /\ reentered' = (reentered \/ reentry # "none")
                /\ queueBatch' = (queueBatch /\ reentry # "addToQueue")
                /\ lastCall' = Call("loadNextFromQueue", resource, name[resource],
                                    UNDEFINED, << >>)
    /\ UNCHANGED <<registryVars, loadVars, engineVars, idVars>>

\* The sound loader marks a synchronous load as running.
setSyncLoading ==
    /\ Spend
    /\ ~isSyncLoading
    /\ isSyncLoading' = TRUE
    /\ UNCHANGED <<syncQueue, forceLoaded, enqueued, outstanding, reentered, queueBatch,
                   lastCall, registryVars, loadVars, engineVars, idVars>>

NextQueue ==
    \/ \E h \in QueueHandles : addToQueue(h)
    \/ \E h \in QueueHandles : loadNextFromQueue("none", h)
    \/ \E h \in QueueHandles : loadNextFromQueue("addToQueue", h)
    \/ \E h \in QueueHandles : loadNextFromQueue("loadNextFromQueue", h)
    \/ setSyncLoading

SpecQueue == Init /\ [][NextQueue]_vars

\* ------------------------------------------------------ Identifier Generator
\* getUniqueID() with this._uniqueID++ in the place of ++this._uniqueID.
getUniqueID_postIncrement ==
    /\ Spend
    /\ uniqueID < MaxID
    /\ uniqueID' = uniqueID + 1
    /\ lastCall' = Call("getUniqueID", "none", EmptyString, uniqueID, << >>)
    /\ issued' = Append(issued, uniqueID)
    /\ UNCHANGED <<registryVars, loadVars, queueVars, engineVars>>

getUniqueID ==
    /\ Spend
    /\ uniqueID < MaxID
    /\ uniqueID' = uniqueID + 1
    /\ lastCall' = Call("getUniqueID", "none", EmptyString, uniqueID + 1, << >>)
    /\ issued' = Append(issued, uniqueID + 1)
    /\ UNCHANGED <<registryVars, loadVars, queueVars, engineVars>>

\* ----------------------------------------------------------- whole manager
Next ==
    \/ NextRegistry
    \/ NextLoad
    \/ NextQueue
    \/ getUniqueID

Spec == Init /\ [][Next]_vars

\* The whole manager, every operation, explored for MaxSteps steps with a
\* reduced set of arguments.
MaxSteps == 4
ManagerHandles == {"h1", "h3"}
ManagerNames == {<<"a">>}

InitManager ==
    /\ name = [h \in Handles |-> CreatedName(h)]
    /\ path = [h \in Handles |-> HandlePath(h)]
    /\ budget = MaxSteps
    /\ ManagerInit

NextManager ==
    \/ \E h \in ManagerHandles : add(h)
    \/ \E h \in ManagerHandles : remove(h)
    \/ \E n \in ManagerNames : getTexture(n)
    \/ \E n \in ManagerNames : getSound(n)
    \/ \E h \in ManagerHandles : addToLoad(h)
    \/ \E h \in ManagerHandles : loadSuccess(h)
    \/ \E h \in ManagerHandles : loadFailed(h)
    \/ \E b \in BOOLEAN : engineSetReady(b)
    \/ \E b \in BOOLEAN : engineSetLoading(b)
    \/ \E h \in ManagerHandles : addToQueue(h)
    \/ \E h \in ManagerHandles : loadNextFromQueue("none", h)
    \/ \E h \in ManagerHandles : loadNextFromQueue("addToQueue", h)
    \/ \E h \in ManagerHandles : loadNextFromQueue("loadNextFromQueue", h)
    \/ setSyncLoading
    \/ getUniqueID

SpecManager == InitManager /\ [][NextManager]_vars

\* ==================================================================== claims
\* A step that is a completion call (loadSuccess or loadFailed).
Completion ==
    \E h \in LoadHandles : loadSuccess(h) \/ loadFailed(h)

\* Number of times h occurs in the in-use bucket of its type.
InUseCount(h) ==
    IF HandleType(h) \in DOMAIN resourcesInUse
    THEN Cardinality({i \in 1..Len(resourcesInUse[HandleType(h)]) :
                        resourcesInUse[HandleType(h)][i] = h})
    ELSE 0

\* C1 as stated: with N >= 1 distinct handles passed to addToLoad while
\* isReady is false and each resolved once, in any interleaving, ALL_LOADED
\* fires at most once, and when it has fired every handle added has resolved.
C1_Original ==
    regular => /\ allLoadedCount <= 1
               /\ (allLoadedCount >= 1 => resolved = added)

\* C1 amended: in such a run the notification fires only in a completion call
\* that leaves no handle added so far unresolved; when all addToLoad calls
\* precede the first completion it fires at most once, in the call resolving
\* the last handle; and every completion call that leaves no added handle
\* unresolved while meta.engine.isLoading is false does fire it, once.
C1_Amended ==
    /\ [](regular /\ batch => /\ allLoadedCount <= 1
                              /\ (allLoadedCount = 1 => resolved = added))
    /\ [][/\ (regular' /\ allLoadedCount' # allLoadedCount)
              => /\ Completion
                 /\ resolved' = added'
                 /\ ~engineIsLoading
                 /\ allLoadedCount' = allLoadedCount + 1
          /\ (regular' /\ Completion /\ resolved' = added' /\ ~engineIsLoading)
              => /\ allLoadedCount' = allLoadedCount + 1
                 /\ (batch' => allLoadedCount' = 1)
                 /\ lastCall'.emitted = <<"onResourcesLoaded", "ALL_LOADED">>]_vars

\* Two handles added, then both resolved: the notification has fired once.
C1_Witness ==
    /\ regular /\ batch
    /\ Cardinality(added) = 2
    /\ resolved = added
    /\ allLoadedCount = 1

\* C2: ALL_LOADED is edge-triggered. Whenever it is emitted, the emitting
\* step is a loadSuccess / loadFailed call that takes numToLoad from 1 to 0
\* and it is emitted once in that call; a call that does not perform that
\* transition emits nothing.
C2_EdgeTriggered ==
    [][/\ allLoadedCount' # allLoadedCount
          => /\ Completion
             /\ numToLoad = 1 /\ numToLoad' = 0
             /\ allLoadedCount' = allLoadedCount + 1
             /\ lastCall'.emitted = <<"onResourcesLoaded", "ALL_LOADED">>
       /\ (Completion /\ ~(numToLoad = 1 /\ numToLoad' = 0))
          => /\ lastCall'.emitted = << >>
             /\ allLoadedCount' = allLoadedCount
       /\ (\E h \in LoadHandles : addToLoad(h))
          => /\ lastCall'.emitted = << >>
             /\ allLoadedCount' = allLoadedCount]_vars

\* The counter has crossed into 0 twice and was notified at each crossing.
C2_Witness ==
    /\ allLoadedCount = 2
    /\ numToLoad = 0
    /\ lastCall.emitted = <<"onResourcesLoaded", "ALL_LOADED">>

\* C3: numToLoad is never negative.
C3_NeverNegative ==
    numToLoad >= 0

\* C4: no handle is flagged both as loading and as in use.
C4_LoadingExcludesInUse ==
    \A h \in Handles : ~(isLoading[h] /\ inUse[h])

\* C7: a handle on which loadSuccess has been called (inUse is set there and
\* nowhere else) is in the in-use bucket of its type exactly once.
C7_InUseExactlyOnce ==
    \A h \in Handles : inUse[h] => InUseCount(h) = 1

\* The own slot (t, n) of the Type Registry holds a handle.
Registered(res, t, n) ==
    /\ t \in DOMAIN res
    /\ n \in DOMAIN res[t]
    /\ res[t][n] \in Handles

\* The lookup by type and name: getTexture / getSound.
GetByName(res, t, n) == Lookup(res, t, n)

\* C5: add of a handle whose (type, name) is already registered returns null,
\* emits no ADDED, and changes no registry entry, no in-use entry and no load
\* counter. The name is the one add() registers under (derived when the
\* handle carries "unknown" and a path).
C5_DuplicateRejected ==
    [][\A h \in Handles :
          (add(h) /\ Registered(resources, HandleType(h), name'[h]))
          => /\ lastCall'.ret = NULL
             /\ lastCall'.emitted = << >>
             /\ resources' = resources
             /\ UNCHANGED <<resourcesInUse, numToLoad, numLoaded>>]_vars

\* h1 is registered under (TEXTURE, "a") and add(h2), of the same type and
\* name, has just been rejected.
C5_Witness ==
    /\ lastCall.op = "add" /\ lastCall.h = "h2" /\ lastCall.ret = NULL
    /\ Registered(resources, TEXTURE, <<"a">>)
    /\ resources[TEXTURE][<<"a">>] = "h1"

\* C6: add of a handle whose (type, name) is not registered returns the
\* handle, for every name, and while the handle stays registered the lookup
\* by its type and name returns it.
C6_AddThenLookup ==
    /\ [](\A h \in Handles :
            (/\ Registered(resources, HandleType(h), name[h])
             /\ resources[HandleType(h)][name[h]] = h)
            => GetByName(resources, HandleType(h), name[h]) = h)
    /\ [][\A h \in Handles :
            (add(h) /\ ~Registered(resources, HandleType(h), name'[h]))
            => /\ lastCall'.ret = h
               /\ resources'[HandleType(h)][name'[h]] = h]_vars

\* C8: the queue drains in LIFO order. As long as no forceLoad has called back
\* into the manager, each loadNextFromQueue call on a non-empty queue
\* force-loads the most recently enqueued handle not yet loaded, and when all
\* addToQueue calls came first the handles loaded so far are the last ones
\* enqueued, in reverse order.
C8_LIFO ==
    /\ [](~reentered /\ queueBatch
          => /\ Len(forceLoaded) <= Len(enqueued)
             /\ \A i \in 1..Len(forceLoaded) :
                    forceLoaded[i] = enqueued[Len(enqueued) + 1 - i])
    /\ [][((\E h \in QueueHandles : loadNextFromQueue("none", h))
           /\ ~reentered /\ ~syncQueue.isNull /\ Len(syncQueue.items) > 0)
          => /\ outstanding # << >>
             /\ forceLoaded' = Append(forceLoaded, outstanding[Len(outstanding)])
             /\ outstanding' = SubSeq(outstanding, 1, Len(outstanding) - 1)
             /\ syncQueue'.items = outstanding']_vars

\* h1, h2, h3 enqueued in that order and drained: h3, h2, h1.
C8_Witness ==
    /\ ~reentered
    /\ enqueued = <<"h1", "h2", "h3">>
    /\ forceLoaded = <<"h3", "h2", "h1">>
    /\ syncQueue.items = << >>

\* C9: remove of a handle that is not registered (no bucket for its type, no
\* entry under its name, or another handle registered under it) leaves the
\* registries and the load counters unchanged.
C9_RemoveUnregistered ==
    [][\A h \in Handles :
          (/\ remove(h)
           /\ ~(/\ Registered(resources, HandleType(h), name[h])
                /\ resources[HandleType(h)][name[h]] = h))
          => UNCHANGED <<resources, resourcesInUse, numToLoad, numLoaded>>]_vars

\* C10: a successful remove of a registered handle makes the lookup by its
\* type and name return null, and an add into a removed slot stores the new
\* handle, emits ADDED and returns it.
C10_RemovedSlotReusable ==
    [][\A h \in Handles :
          /\ (/\ remove(h)
               /\ Registered(resources, HandleType(h), name[h])
               /\ resources[HandleType(h)][name[h]] = h)
              => /\ GetByName(resources', HandleType(h), name[h]) = NULL
                 /\ ~Registered(resources', HandleType(h), name[h])
          /\ (/\ add(h)
               /\ HandleType(h) \in DOMAIN resources
               /\ name'[h] \in DOMAIN resources[HandleType(h)]
               /\ resources[HandleType(h)][name'[h]] = NULL)
              => /\ resources'[HandleType(h)][name'[h]] = h
                 /\ lastCall'.ret = h
                 /\ lastCall'.emitted = <<"ADDED">>]_vars

\* h1 was registered under (TEXTURE, "a") and removed, and h2 has just been
\* added under the same type and name.
C10_Witness ==
    /\ "h1" \in removed
    /\ lastCall.op = "add" /\ lastCall.h = "h2" /\ lastCall.ret = "h2"
    /\ resources[TEXTURE][<<"a">>] = "h2"
    /\ GetByName(resources, TEXTURE, <<"a">>) = "h2"

\* The last path segment (the text after the final "/") without its
\* extension (the text from the last "." of that segment on); the whole
\* segment when it has no ".".
LastSegmentStem(p) ==
    LET segment == Slice(p, LastIndexOf(p, "/") + 1, Len(p))
        dot == LastIndexOf(segment, ".")
    IN  IF dot < 0 THEN segment ELSE Slice(segment, 0, dot)

\* C11: add() registers a handle named "unknown" that has a path under the
\* last path segment with its extension stripped (the whole segment when it
\* has no extension), for every path; any other handle keeps its name.
C11_NameDerivation ==
    [][\A h \in Handles :
          add(h) => /\ name'[h] = IF name[h] = Unknown /\ path[h] # EmptyString
                                  THEN LastSegmentStem(path[h])
                                  ELSE name[h]
                    /\ lastCall'.name = name'[h]]_vars

\* A step that is a call of the load accounting.
LoadCall ==
    \E h \in LoadHandles : addToLoad(h) \/ loadSuccess(h) \/ loadFailed(h)

\* C12: while meta.engine.isReady is true, addToLoad, loadSuccess and
\* loadFailed leave numToLoad and numLoaded unchanged and emit nothing;
\* numToLoad changes only in such a call made while the flag is false.
C12_ReadyFreezesAccounting ==
    [][/\ (isReady /\ LoadCall)
          => /\ UNCHANGED <<numToLoad, numLoaded, allLoadedCount>>
             /\ lastCall'.emitted = << >>
       /\ numToLoad' # numToLoad => (~isReady /\ LoadCall)]_vars

\* loadSuccess was called, only ever with the flag true: one load is still
\* counted as outstanding and none as loaded.
C12_Witness ==
    /\ isReady
    /\ lastCall.op = "loadSuccess"
    /\ inUse[lastCall.h]
    /\ numToLoad = 1 /\ numLoaded = 0

\* C13: the k-th getUniqueID call returns k (so the ids are distinct and
\* strictly increasing from 1 in steps of one), and no other operation
\* changes the counter.
C13_UniqueIDs ==
    /\ [](/\ \A i \in 1..Len(issued) : issued[i] = i
          /\ uniqueID = Len(issued))
    /\ [][IF getUniqueID
          THEN /\ lastCall'.op = "getUniqueID"
               /\ lastCall'.ret = Len(issued) + 1
          ELSE uniqueID' = uniqueID]_vars

\* Three ids were issued, with a registry operation in between.
C13_Witness ==
    /\ issued = <<1, 2, 3>>
    /\ resources # << >>

\* The events of the phase-complete notification.
PhaseComplete == {"onResourcesLoaded", "ALL_LOADED"}

\* C14: as long as no handle was passed to addToLoad and neither loadSuccess
\* nor loadFailed was called, the phase-complete notification has not been
\* emitted, whatever add, remove, lookup, queue and id operations occurred.
C14_NoSpuriousNotification ==
    (added = {} /\ resolved = {})
    => /\ allLoadedCount = 0
       /\ \A i \in 1..Len(lastCall.emitted) : lastCall.emitted[i] \notin PhaseComplete

\* An idle run: an add, an id, an enqueue and a lookup, numToLoad still 0.
C14_Witness ==
    /\ added = {} /\ resolved = {}
    /\ numToLoad = 0 /\ ~isReady /\ ~engineIsLoading
    /\ resources # << >>
    /\ issued # << >>
    /\ enqueued # << >>
    /\ lastCall.op = "getTexture"

\* C15: a loadSuccess or loadFailed call emits the notification if and only
\* if isReady is false, numToLoad is exactly 0 after the decrement and
\* meta.engine.isLoading is false; what it emits is onResourcesLoaded first
\* and ALL_LOADED second, and otherwise nothing.
C15_NotificationCondition ==
    [][Completion
       => /\ lastCall'.emitted =
                IF ~isReady /\ numToLoad' = 0 /\ ~engineIsLoading
                THEN <<"onResourcesLoaded", "ALL_LOADED">>
                ELSE << >>
          /\ allLoadedCount' = allLoadedCount
                + (IF lastCall'.emitted = << >> THEN 0 ELSE 1)]_vars

\* Every handle added has resolved and numToLoad is back at 0, yet nothing
\* was emitted: meta.engine.isLoading was true in the call that reached 0.
C15_Witness ==
    /\ regular /\ added # {} /\ resolved = added
    /\ numToLoad = 0
    /\ allLoadedCount = 0
    /\ lastCall.emitted = << >>

\* C16: loadFailed clears the handle's isLoading and never promotes it: the
\* in-use registry, the inUse flags and numLoaded are unchanged; while isReady
\* is false it decrements numToLoad by one and notifies as loadSuccess does.
C16_LoadFailed ==
    [][\A h \in LoadHandles :
          loadFailed(h)
          => /\ isLoading'[h] = FALSE
             /\ UNCHANGED <<resourcesInUse, inUse, numLoaded>>
             /\ numToLoad' = IF isReady THEN numToLoad ELSE numToLoad - 1
             /\ lastCall'.emitted =
                   IF ~isReady /\ numToLoad' = 0 /\ ~engineIsLoading
                   THEN <<"onResourcesLoaded", "ALL_LOADED">>
                   ELSE << >>]_vars

\* The last outstanding load of a batch of two failed and completed the phase.
C16_Witness ==
    /\ lastCall.op = "loadFailed"
    /\ lastCall.emitted = <<"onResourcesLoaded", "ALL_LOADED">>
    /\ ~inUse[lastCall.h] /\ ~isLoading[lastCall.h]
    /\ Cardinality(added) = 2 /\ resolved = added
    /\ numToLoad = 0

\* The in-use collection of type t (empty while the bucket does not exist).
InUseBucket(inUseMap, t) ==
    IF t \in DOMAIN inUseMap THEN inUseMap[t] ELSE << >>

\* C17: the In-Use Registry is append-only. A loadSuccess call appends its
\* handle at the end of the collection of the handle's type and leaves the
\* other collections alone; every other operation (add, remove, addToLoad,
\* loadFailed, lookups, queue operations) leaves the registry unchanged.
C17_InUseAppendOnly ==
    [][IF \E h \in Handles : loadSuccess(h)
       THEN \E h \in Handles :
               /\ loadSuccess(h)
               /\ InUseBucket(resourcesInUse', HandleType(h))
                     = Append(InUseBucket(resourcesInUse, HandleType(h)), h)
               /\ \A t \in Types \ {HandleType(h)} :
                     InUseBucket(resourcesInUse', t) = InUseBucket(resourcesInUse, t)
       ELSE resourcesInUse' = resourcesInUse]_vars

\* h1 was registered, loaded and removed: its registry slot is cleared and it
\* is still in the in-use collection.
C17_Witness ==
    /\ "h1" \in removed
    /\ ~Registered(resources, TEXTURE, <<"a">>)
    /\ InUseBucket(resourcesInUse, TEXTURE) = <<"h1">>
    /\ lastCall.op = "remove"

\* How many times h occurs in seq.
Occurrences(seq, h) ==
    Cardinality({i \in 1..Len(seq) : seq[i] = h})

\* C18: each loadNextFromQueue call clears isSyncLoading; on an empty or
\* not-yet-created queue it changes nothing else and force-loads nothing; on a
\* non-empty queue the handle it removes is the handle it force-loaded, so the
\* queue always holds exactly the enqueued handles not yet force-loaded, no
\* handle is force-loaded more often than it was enqueued, and once the queue
\* is drained every enqueued handle was force-loaded exactly once -- also when
\* forceLoad calls addToQueue or loadNextFromQueue before the element is
\* removed.
C18_DrainExactlyOnce ==
    /\ [][(\E r \in Reentries, h \in QueueHandles : loadNextFromQueue(r, h))
          => /\ isSyncLoading' = FALSE
             /\ (syncQueue.isNull \/ syncQueue.items = << >>)
                   => UNCHANGED <<syncQueue, forceLoaded>>
             /\ (~syncQueue.isNull /\ syncQueue.items # << >>)
                   => /\ Len(forceLoaded') > Len(forceLoaded)
                      /\ syncQueue'.items = outstanding']_vars
    /\ [](\A h \in QueueHandles :
             /\ Occurrences(forceLoaded, h) <= Occurrences(enqueued, h)
             /\ syncQueue.items = << >>
                   => Occurrences(forceLoaded, h) = Occurrences(enqueued, h))

\* C19: accounting conservation. While isReady has never been true, numToLoad
\* is the number of addToLoad calls minus the number of loadSuccess and
\* loadFailed calls and numLoaded is the number of loadSuccess calls;
\* numLoaded never decreases, and only addToLoad, loadSuccess and loadFailed
\* change either counter.
C19_Conservation ==
    /\ [](tally.unready => numToLoad = tally.toLoad /\ numLoaded = tally.loaded)
    /\ [][numLoaded' >= numLoaded]_vars
    /\ [][~LoadCall => UNCHANGED <<numToLoad, numLoaded>>]_vars

\* Two addToLoad calls, one loadSuccess and one loadFailed, isReady false
\* throughout.
C19_Witness ==
    /\ tally.unready
    /\ Cardinality(added) = 2 /\ resolved = added
    /\ numLoaded = 1 /\ numToLoad = 0
    /\ lastCall.op = "loadFailed"

\* The slots of the registry that hold something: the (type, name) pairs the
\* manager has stored a value under that remove() has not cleared.
NonEmptySlots ==
    {s \in UNION {{<<t, n>> : n \in DOMAIN resources[t]} : t \in DOMAIN resources} :
        Truthy(resources[s[1]][s[2]])}

\* C20: registry keying. Every non-empty slot resources[t][n] holds a handle
\* whose type is t and whose name is n, also when the name was derived from
\* the path inside add; so no handle is stored under two names and a
\* (type, name) pair maps to at most one handle.
C20_RegistryKeying ==
    /\ \A s \in NonEmptySlots :
          /\ resources[s[1]][s[2]] \in Handles
          /\ HandleType(resources[s[1]][s[2]]) = s[1]
          /\ name[resources[s[1]][s[2]]] = s[2]
    /\ \A s1, s2 \in NonEmptySlots :
          resources[s1[1]][s1[2]] = resources[s2[1]][s2[2]] => s1 = s2

\* h2 came with the name "unknown" and the path "x/a.p" and is stored under
\* the derived name "a".
C20_Witness ==
    /\ Registered(resources, TEXTURE, <<"a">>)
    /\ resources[TEXTURE][<<"a">>] = "h2"
    /\ name["h2"] = <<"a">>
    /\ CreatedName("h2") = Unknown
    /\ lastCall.op = "add" /\ lastCall.h = "h2"

====
